---- MODULE Spec2Model ----
(***************************************************************************)
(* A model of the foton_tms backend (FastAPI handlers over a relational    *)
(* store).  The variables are the tables of the store; every action is one *)
(* HTTP handler, run as one transaction (src/app/core/database.py get_db:  *)
(* commit on return, rollback on any exception).  Requests are taken as    *)
(* already authenticated with a role that passes require_role and          *)
(* check_project_access (an Administrator).  Columns that no handler reads *)
(* back in a condition (names, titles, descriptions, tags, timestamps of   *)
(* creation) are left out of the rows.                                     *)
(*                                                                         *)
(* Ids are UUIDs in the code; here every table hands out 1, 2, 3, ... and  *)
(* never reuses an id.  Dates are day numbers, instants are multiples of   *)
(* 18 seconds (0.005 h, the smallest step at which the two roundings of    *)
(* total_hours can differ), hours are kept in hundredths.                  *)
(***************************************************************************)
EXTENDS Integers, Sequences, FiniteSets, TLC

\* ---------------------------------------------------------------- bounds
MaxSessions == 2
MaxTime == 2
MaxIterations == 2
MaxItems == 3
MaxDropItems == 2
MaxRequests == 2
MaxDate == 3

\* ---------------------------------------------------------------- values
\* Python None in an Optional id / date / instant column or request field.
NONE == -1
\* A request field that was not sent (model_dump(exclude_unset=True) drops it).
UNSET == -2
NoneStr == "None"
UnsetStr == "Unset"

EPIC == "Epic"
FEATURE == "Feature"
USER_STORY == "UserStory"
TASK == "Task"
WorkItemType == {EPIC, FEATURE, USER_STORY, TASK}

\* WorkItemState.NEW (NEW is a reserved word of TLA+).
NEW_ == "New"
ACTIVE == "Active"
IN_PROGRESS == "InProgress"
RESOLVED == "Resolved"
CLOSED == "Closed"
REMOVED == "Removed"
WorkItemState == {NEW_, ACTIVE, IN_PROGRESS, RESOLVED, CLOSED, REMOVED}

VARIABLES
    projects,          \* set of ids of the rows of table projects
    users,             \* id -> [is_active, capacity_per_day]
    members,           \* set of <<project_id, user_id>> (table project_members)
    iterations,        \* id -> [project_id, start_date, end_date, working_days]
    work_items,        \* id -> row of table work_items
    sessions,          \* id -> [work_item_id, started_at, ended_at, total_hours]
    drop_plan_items,   \* id -> [iteration_id, work_item_id, assigned_user_id, planned_date]
    next_id,           \* table name -> the next id the table hands out
    txn,               \* request -> the state of an in-flight create_drop_plan_item
    resp               \* the last response: [op, status]

vars == <<projects, users, members, iterations, work_items, sessions,
          drop_plan_items, next_id, txn, resp>>

Tables == {"projects", "users", "iterations", "work_items", "sessions", "drop_plan_items"}

\* The response of handler op with HTTP status st.  500 is the global exception
\* handler's answer to an exception that is no HTTPException.
Response(op, st) == [op |-> op, status |-> st]

\* The mutation of C22: the transaction is committed after an exception too.
GetDbCommitOnError(st, stored, session) == session

\* get_db: the session the handler worked on is committed when the handler
\* returns and rolled back when it raises (every status from 400 on is an
\* exception, an HTTPException or one the global handler answers with 500).
GetDb(st, stored, session) == IF st < 400 THEN session ELSE stored

\* f with key k added or overwritten.
Put(f, k, v) == [x \in DOMAIN f \cup {k} |-> IF x = k THEN v ELSE f[x]]
\* f without key k.
Drop(f, k) == [x \in DOMAIN f \ {k} |-> f[x]]
\* The empty table.
NoRows == [x \in {} |-> x]

Instants == 0..MaxTime
Dates == 1..MaxDate
\* Project ids a request may name: 1 and 2 are seeded where a specification needs
\* projects, 3 never exists.
ProjectIds == {1, 2, 3}

\* A row of work_items as create_work_item builds it (state defaults to New).
WorkItemRow(p, type, parent, est) ==
    [project_id |-> p, type |-> type, state |-> NEW_, parent_id |-> parent,
     assigned_to |-> NONE, iteration_id |-> NONE, estimation_hours |-> est,
     start_date |-> NONE, end_date |-> NONE]

\* The store right after the tables are created (main.py lifespan).
EmptyStore ==
    /\ projects = {}
    /\ users = NoRows
    /\ members = {}
    /\ iterations = NoRows
    /\ work_items = NoRows
    /\ sessions = NoRows
    /\ drop_plan_items = NoRows
    /\ next_id = [t \in Tables |-> 1]
    /\ txn = NoRows
    /\ resp = Response("startup", 200)

\* One project holding Epic 1 > Feature 2 > UserStory 3 > Tasks 4 and 5, each
\* made by create_work_item in this order (ItemSpec reaches the same rows).
SeedItems ==
    (1 :> WorkItemRow(1, EPIC, NONE, NONE)) @@
    (2 :> WorkItemRow(1, FEATURE, 1, NONE)) @@
    (3 :> WorkItemRow(1, USER_STORY, 2, NONE)) @@
    (4 :> WorkItemRow(1, TASK, 3, 100)) @@
    (5 :> WorkItemRow(1, TASK, 3, 100))

\* ------------------------------------------------------------ work sessions

\* round(delta.total_seconds() / 3600, 2) on binary floats, in hundredths of an
\* hour, for delta = k * 18 s.  k / 2 is exact for even k; for odd k the float
\* nearest to k * 0.005 lies above or below the tie and decides the digit.
FloatTieUp == {1, 5, 7, 11, 13, 17, 19, 23, 27, 33, 39}
HoursFloat(k) ==
    IF k % 2 = 0 THEN k \div 2
    ELSE IF k >= 0 /\ k \in FloatTieUp THEN (k + 1) \div 2 ELSE (k - 1) \div 2

\* The mutation of C23: update_work_session rounds to whole hours.
HoursDecimalWhole(k) == ((k + 100) \div 200) * 100

\* round(Decimal(delta) / 3600, 2): exact decimal, ties to the even digit.
HoursDecimal(k) ==
    IF k % 2 = 0 THEN k \div 2
    ELSE IF ((k - 1) \div 2) % 2 = 0 THEN (k - 1) \div 2 ELSE (k + 1) \div 2

\* select(WorkSession).where(work_item_id == wi, ended_at IS NULL)
OpenSessions(wi) ==
    {s \in DOMAIN sessions :
        sessions[s].work_item_id = wi /\ sessions[s].ended_at = NONE}

\* select(WorkItem).where(id == wi, project_id == p)
ItemInProject(wi, p) ==
    wi \in DOMAIN work_items /\ work_items[wi].project_id = p

\* The status create_work_session answers with, 201 when it inserts.
CreateSessionStatus(p, wi, started, ended) ==
    IF ended # NONE /\ ended <= started THEN 422
    ELSE IF ~ItemInProject(wi, p) THEN 404
    ELSE IF work_items[wi].type # TASK THEN 400
    ELSE IF Cardinality(OpenSessions(wi)) > 1 THEN 500
    ELSE IF OpenSessions(wi) # {} THEN 409
    ELSE 201

CreateWorkSession(p, wi, started, ended) ==
    LET st == CreateSessionStatus(p, wi, started, ended)
        id == next_id["sessions"]
    IN  /\ st = 201 => id <= MaxSessions
        /\ resp' = Response("create_work_session", st)
        \* every raise of the handler precedes db.add(session)
        /\ sessions' = GetDb(st, sessions,
               IF st = 201
               THEN Put(sessions, id,
                       [work_item_id |-> wi, started_at |-> started,
                        ended_at |-> ended,
                        total_hours |-> IF ended # NONE
                                        THEN HoursFloat(ended - started)
                                        ELSE NONE])
               ELSE sessions)
        /\ next_id' = IF st = 201 THEN [next_id EXCEPT !["sessions"] = id + 1]
                      ELSE next_id
        /\ UNCHANGED <<projects, users, members, iterations, work_items,
                       drop_plan_items, txn>>

\* update_data.get(field, current): the value the row will hold.
Patched(sent, current) == IF sent = UNSET THEN current ELSE sent

UpdateSessionStatus(wi, sid, patch) ==
    IF ~(sid \in DOMAIN sessions /\ sessions[sid].work_item_id = wi) THEN 404
    ELSE LET new_started == Patched(patch.started_at, sessions[sid].started_at)
             new_ended == Patched(patch.ended_at, sessions[sid].ended_at)
         IN  IF new_started # NONE /\ new_ended # NONE /\ new_started >= new_ended
             THEN 400
             ELSE 200

UpdateWorkSession(wi, sid, patch) ==
    LET st == UpdateSessionStatus(wi, sid, patch)
    IN  /\ resp' = Response("update_work_session", st)
        \* both raises of the handler precede the setattr loop
        /\ sessions' = GetDb(st, sessions,
               IF st = 200
               THEN LET s == Patched(patch.started_at, sessions[sid].started_at)
                        e == Patched(patch.ended_at, sessions[sid].ended_at)
                    IN  [sessions EXCEPT ![sid] =
                            [work_item_id |-> wi, started_at |-> s, ended_at |-> e,
                             total_hours |-> IF s # NONE /\ e # NONE
                                             THEN HoursDecimal(e - s)
                                             ELSE NONE]]
               ELSE sessions)
        /\ UNCHANGED <<projects, users, members, iterations, work_items,
                       drop_plan_items, next_id, txn>>

DeleteWorkSession(wi, sid) ==
    LET found == sid \in DOMAIN sessions /\ sessions[sid].work_item_id = wi
    IN  /\ resp' = Response("delete_work_session", IF found THEN 204 ELSE 404)
        /\ sessions' = IF found THEN Drop(sessions, sid) ELSE sessions
        /\ UNCHANGED <<projects, users, members, iterations, work_items,
                       drop_plan_items, next_id, txn>>

\* ---- _compute_hours

\* func.coalesce(func.sum(total_hours), 0) over a set of session rows.
RECURSIVE SumTotalHours(_)
SumTotalHours(rows) ==
    IF rows = {} THEN 0
    ELSE LET s == CHOOSE x \in rows : TRUE
         IN  (IF sessions[s].total_hours = NONE THEN 0 ELSE sessions[s].total_hours)
             + SumTotalHours(rows \ {s})

\* The sessions of the item that have ended.
ClosedSessions(wi) ==
    {s \in DOMAIN sessions :
        sessions[s].work_item_id = wi /\ sessions[s].ended_at # NONE}

\* The mutation of C14: the open session's time is taken without max(.., 0).
ComputeHoursNoClamp(wi, now) ==
    LET closed_hours == SumTotalHours(ClosedSessions(wi))
        open == OpenSessions(wi)
        open_hours == IF open = {} THEN 0
                      ELSE HoursFloat(now - sessions[CHOOSE s \in open : TRUE].started_at)
        completed == closed_hours + open_hours
        estimation == work_items[wi].estimation_hours
    IN  [raised |-> Cardinality(open) > 1, completed |-> completed,
         remaining |-> IF estimation # NONE THEN estimation - completed ELSE NONE]

\* The mutation of C15: remaining hours are taken from the closed sessions alone.
ComputeHoursClosedOnly(wi, now) ==
    LET closed_hours == SumTotalHours(ClosedSessions(wi))
        open == OpenSessions(wi)
        open_hours == IF open = {} THEN 0
                      ELSE LET d == now - sessions[CHOOSE s \in open : TRUE].started_at
                           IN  HoursFloat(IF d > 0 THEN d ELSE 0)
        estimation == work_items[wi].estimation_hours
    IN  [raised |-> Cardinality(open) > 1, completed |-> closed_hours + open_hours,
         remaining |-> IF estimation # NONE THEN estimation - closed_hours ELSE NONE]

\* _compute_hours at the instant now.  scalar_one_or_none() raises
\* MultipleResultsFound when the item has several open sessions.
ComputeHours(wi, now) ==
    LET closed_hours == SumTotalHours(ClosedSessions(wi))
        open == OpenSessions(wi)
        open_hours == IF open = {} THEN 0
                      ELSE LET d == now - sessions[CHOOSE s \in open : TRUE].started_at
                           IN  HoursFloat(IF d > 0 THEN d ELSE 0)
        completed == closed_hours + open_hours
        estimation == work_items[wi].estimation_hours
    IN  [raised |-> Cardinality(open) > 1, completed |-> completed,
         remaining |-> IF estimation # NONE THEN estimation - completed ELSE NONE]

\* get_work_item at the instant now: the response carries completed_hours and
\* remaining_hours of _build_work_item_response.
GetWorkItem(p, wi, now) ==
    /\ resp' = IF ~ItemInProject(wi, p) THEN Response("get_work_item", 404)
               ELSE IF ComputeHours(wi, now).raised THEN Response("get_work_item", 500)
               ELSE [op |-> "get_work_item", status |-> 200,
                     work_item_id |-> wi, now |-> now,
                     completed_hours |-> ComputeHours(wi, now).completed,
                     remaining_hours |-> ComputeHours(wi, now).remaining]
    /\ UNCHANGED <<projects, users, members, iterations, work_items, sessions,
                   drop_plan_items, next_id, txn>>

\* --------------------------------------------------------------- work items

\* valid_parents of create_work_item: the parent type each type must have.
ValidParent(type) ==
    CASE type = FEATURE -> EPIC
      [] type = USER_STORY -> FEATURE
      [] type = TASK -> USER_STORY
      [] OTHER -> NoneStr

\* validate_assigned_to_in_project raises 400.
NotMember(u, p) == <<p, u>> \notin members

\* validate_iteration_in_project raises 400.
IterationNotInProject(i, p) ==
    ~(i \in DOMAIN iterations /\ iterations[i].project_id = p)

\* Task with a sprint and no start date: both dates become the sprint's start.
DefaultDates(row) ==
    IF row.type = TASK /\ row.iteration_id # NONE /\ row.start_date = NONE
       /\ row.iteration_id \in DOMAIN iterations
    THEN [row EXCEPT !.start_date = iterations[row.iteration_id].start_date,
                     !.end_date = iterations[row.iteration_id].start_date]
    ELSE row

\* data.estimation_hours is UNSET when the body leaves the field out: pydantic
\* runs validate_estimation only on a value that was sent.
CreateItemStatus(p, data) ==
    IF data.estimation_hours # UNSET /\ data.estimation_hours # NONE
       /\ data.estimation_hours <= 0 THEN 422
    ELSE IF data.estimation_hours = NONE /\ data.type = TASK THEN 422
    ELSE IF data.assigned_to # NONE /\ NotMember(data.assigned_to, p) THEN 400
    ELSE IF data.iteration_id # NONE /\ IterationNotInProject(data.iteration_id, p)
    THEN 400
    ELSE IF data.parent_id # NONE /\ ~ItemInProject(data.parent_id, p) THEN 400
    ELSE IF data.parent_id # NONE /\ ValidParent(data.type) # NoneStr
            /\ work_items[data.parent_id].type # ValidParent(data.type) THEN 400
    ELSE IF data.parent_id = NONE /\ data.type # EPIC THEN 400
    ELSE IF p \notin projects THEN 500
    ELSE 201

CreateWorkItem(p, data) ==
    LET st == CreateItemStatus(p, data)
        id == next_id["work_items"]
    IN  /\ st = 201 => id <= MaxItems
        /\ resp' = Response("create_work_item", st)
        /\ IF st = 201
           THEN /\ work_items' = Put(work_items, id, DefaultDates(
                       [project_id |-> p, type |-> data.type, state |-> NEW_,
                        parent_id |-> data.parent_id,
                        assigned_to |-> data.assigned_to,
                        iteration_id |-> data.iteration_id,
                        estimation_hours |-> Patched(data.estimation_hours, NONE),
                        start_date |-> data.start_date,
                        end_date |-> data.end_date]))
                /\ next_id' = [next_id EXCEPT !["work_items"] = id + 1]
           ELSE UNCHANGED <<work_items, next_id>>
        /\ UNCHANGED <<projects, users, members, iterations, sessions,
                       drop_plan_items, txn>>

\* for field, value in update_data.items(): setattr(work_item, field, value)
PatchedStr(sent, current) == IF sent = UnsetStr THEN current ELSE sent

ApplyItemPatch(row, patch) ==
    [project_id |-> row.project_id,
     type |-> PatchedStr(patch.type, row.type),
     state |-> PatchedStr(patch.state, row.state),
     parent_id |-> Patched(patch.parent_id, row.parent_id),
     assigned_to |-> Patched(patch.assigned_to, row.assigned_to),
     iteration_id |-> Patched(patch.iteration_id, row.iteration_id),
     estimation_hours |-> Patched(patch.estimation_hours, row.estimation_hours),
     start_date |-> Patched(patch.start_date, row.start_date),
     end_date |-> Patched(patch.end_date, row.end_date)]

\* The rows at or below the rows of frontier by parent_id, breadth first.
RECURSIVE Below(_, _, _)
Below(items, frontier, seen) ==
    LET children == {y \in DOMAIN items : items[y].parent_id \in frontier} \ seen
    IN  IF children = {} THEN seen ELSE Below(items, children, seen \cup children)

\* Every row _set_removed_recursive(parent_id) visits: the children of
\* parent_id in the project, their children, and so on.
Descendants(items, parent_id) == Below(items, {parent_id}, {})

\* The mutation of C7: the cascade marks every row of the project.
SetRemovedWholeProject(items, parent_id, project_id) ==
    [y \in DOMAIN items |->
        IF items[y].project_id = project_id /\ y # parent_id
        THEN [items[y] EXCEPT !.state = REMOVED]
        ELSE items[y]]

\* The mutation of C6: the cascade stops at the children.
SetRemovedChildrenOnly(items, parent_id, project_id) ==
    [y \in DOMAIN items |->
        IF items[y].parent_id = parent_id /\ items[y].project_id = project_id
        THEN [items[y] EXCEPT !.state = REMOVED]
        ELSE items[y]]

\* _set_removed_recursive: child.state = Removed for each child, then the same
\* for the child's children.  (A row never has a parent of another project:
\* validate_parent_in_project guards both writes of parent_id.)
SetRemovedRecursive(items, parent_id, project_id) ==
    [y \in DOMAIN items |->
        IF y \in Descendants(items, parent_id) /\ items[y].project_id = project_id
        THEN [items[y] EXCEPT !.state = REMOVED]
        ELSE items[y]]

\* The recursion never returns when the row is its own descendant: Python ends
\* it with RecursionError.
CascadeDiverges(items, id) == id \in Descendants(items, id)

UpdateItemStatus(p, id, patch) ==
    IF patch.estimation_hours # UNSET /\ patch.estimation_hours # NONE
       /\ patch.estimation_hours <= 0 THEN 422
    ELSE IF ~ItemInProject(id, p) THEN 404
    ELSE IF patch.parent_id # UNSET /\ patch.parent_id # NONE
            /\ patch.parent_id = id THEN 400
    ELSE IF patch.parent_id # UNSET /\ patch.parent_id # NONE
            /\ ~ItemInProject(patch.parent_id, p) THEN 400
    ELSE IF patch.assigned_to # UNSET /\ patch.assigned_to # NONE
            /\ NotMember(patch.assigned_to, p) THEN 400
    ELSE IF patch.iteration_id # UNSET /\ patch.iteration_id # NONE
            /\ IterationNotInProject(patch.iteration_id, p) THEN 400
    ELSE IF patch.type = NoneStr \/ patch.state = NoneStr THEN 500
    ELSE IF patch.state = REMOVED
            /\ CascadeDiverges(Put(work_items, id, ApplyItemPatch(work_items[id], patch)), id)
    THEN 500
    ELSE 200

UpdateWorkItem(p, id, patch) ==
    LET st == UpdateItemStatus(p, id, patch)
    IN  /\ resp' = Response("update_work_item", st)
        \* 422, 404 and 400 are raised before the setattr loop; a 500 comes
        \* from the cascade or from db.flush(), after the rows were changed
        /\ work_items' = GetDb(st, work_items,
               IF st \in {200, 500}
               THEN LET row == ApplyItemPatch(work_items[id], patch)
                        dated == IF patch.iteration_id # UNSET /\ patch.iteration_id # NONE
                                 THEN DefaultDates(row) ELSE row
                        set == Put(work_items, id, dated)
                    IN  IF patch.state = REMOVED
                        THEN SetRemovedRecursive(set, id, p)
                        ELSE set
               ELSE work_items)
        /\ UNCHANGED <<projects, users, members, iterations, sessions,
                       drop_plan_items, next_id, txn>>

\* --------------------------------------------------------------- iterations

\* d.isoformat(): working_days are stored as JSON strings, not as dates.
IsoFormat(d) == [iso |-> d]
\* date.fromisoformat(s)
FromIsoFormat(s) == s.iso
\* [d.isoformat() for d in days]
IsoList(days) == [i \in DOMAIN days |-> IsoFormat(days[i])]

\* A working_days field that was not sent, and one sent as null.
UnsetList == <<UNSET>>
NoneList == <<NONE>>

\* The mutation of C13: validate_dates lets a one-day range through.
DatesInvalidReversedOnly(start_date, end_date) == start_date > end_date

\* validate_dates raises 400.
DatesInvalid(start_date, end_date) == start_date >= end_date

\* chk_iteration_dates: the store refuses a sprint whose end_date is not after
\* its start_date (IntegrityError at the flush).
CheckDatesViolation(start_date, end_date) == ~(end_date > start_date)

\* validate_working_days raises 400.
WorkingDaysInvalid(days, start_date, end_date) ==
    \E i \in DOMAIN days : days[i] < start_date \/ days[i] > end_date

\* The mutation of C3: the query misses a sprint that lies inside the new range.
OverlappingEndOnly(p, start_date, end_date, exclude_iteration_id) ==
    {i \in DOMAIN iterations :
        /\ iterations[i].project_id = p
        /\ iterations[i].start_date < end_date
        /\ iterations[i].end_date > end_date
        /\ exclude_iteration_id # NONE => i # exclude_iteration_id}

\* The mutation of C11: the query compares with <= and >=, so that ranges that
\* only touch count as overlapping.
OverlappingClosed(p, start_date, end_date, exclude_iteration_id) ==
    {i \in DOMAIN iterations :
        /\ iterations[i].project_id = p
        /\ iterations[i].start_date <= end_date
        /\ iterations[i].end_date >= start_date
        /\ exclude_iteration_id # NONE => i # exclude_iteration_id}

\* The rows validate_no_overlap's query selects.
Overlapping(p, start_date, end_date, exclude_iteration_id) ==
    {i \in DOMAIN iterations :
        /\ iterations[i].project_id = p
        /\ iterations[i].start_date < end_date
        /\ iterations[i].end_date > start_date
        /\ exclude_iteration_id # NONE => i # exclude_iteration_id}

\* validate_no_overlap: 0 when it returns, 409 on one overlapping row, 500 when
\* scalar_one_or_none() meets several rows (MultipleResultsFound).
NoOverlapStatus(p, start_date, end_date, exclude_iteration_id) ==
    LET rows == Overlapping(p, start_date, end_date, exclude_iteration_id)
    IN  IF rows = {} THEN 0 ELSE IF Cardinality(rows) = 1 THEN 409 ELSE 500

CreateIterationStatus(p, data) ==
    IF data.end_date <= data.start_date THEN 422
    ELSE IF p \notin projects THEN 404
    ELSE IF DatesInvalid(data.start_date, data.end_date) THEN 400
    ELSE IF WorkingDaysInvalid(data.working_days, data.start_date, data.end_date)
    THEN 400
    ELSE IF NoOverlapStatus(p, data.start_date, data.end_date, NONE) # 0
    THEN NoOverlapStatus(p, data.start_date, data.end_date, NONE)
    ELSE IF CheckDatesViolation(data.start_date, data.end_date) THEN 500
    ELSE 201

CreateIteration(p, data) ==
    LET st == CreateIterationStatus(p, data)
        id == next_id["iterations"]
    IN  /\ st = 201 => id <= MaxIterations
        /\ resp' = Response("create_iteration", st)
        /\ IF st = 201
           THEN /\ iterations' = Put(iterations, id,
                       [project_id |-> p, start_date |-> data.start_date,
                        end_date |-> data.end_date,
                        working_days |-> IsoList(data.working_days)])
                /\ next_id' = [next_id EXCEPT !["iterations"] = id + 1]
           ELSE UNCHANGED <<iterations, next_id>>
        /\ UNCHANGED <<projects, users, members, work_items, sessions,
                       drop_plan_items, txn>>

UpdateIterationStatus(p, id, patch) ==
    IF ~(id \in DOMAIN iterations /\ iterations[id].project_id = p) THEN 404
    ELSE LET start_date == Patched(patch.start_date, iterations[id].start_date)
             end_date == Patched(patch.end_date, iterations[id].end_date)
             dates_sent == patch.start_date # UNSET \/ patch.end_date # UNSET
             days_sent == patch.working_days # UnsetList
                          /\ patch.working_days # NoneList
         IN  IF dates_sent /\ (start_date = NONE \/ end_date = NONE) THEN 500
             ELSE IF dates_sent /\ DatesInvalid(start_date, end_date) THEN 400
             ELSE IF days_sent
                     /\ WorkingDaysInvalid(patch.working_days, start_date, end_date)
             THEN 400
             ELSE IF dates_sent /\ NoOverlapStatus(p, start_date, end_date, id) # 0
             THEN NoOverlapStatus(p, start_date, end_date, id)
             ELSE IF patch.working_days = NoneList THEN 500
             ELSE IF CheckDatesViolation(start_date, end_date) THEN 500
             ELSE 200

\* update_iteration passes its validators and db.flush() raises.
UpdateIterationFlushFails(p, id, patch) ==
    /\ UpdateIterationStatus(p, id, patch) = 500
    /\ LET start_date == Patched(patch.start_date, iterations[id].start_date)
           end_date == Patched(patch.end_date, iterations[id].end_date)
           dates_sent == patch.start_date # UNSET \/ patch.end_date # UNSET
       IN  ~(dates_sent /\ (start_date = NONE \/ end_date = NONE))
           /\ ~(dates_sent /\ NoOverlapStatus(p, start_date, end_date, id) = 500)

UpdateIteration(p, id, patch) ==
    LET st == UpdateIterationStatus(p, id, patch)
    IN  /\ resp' = Response("update_iteration", st)
        \* the validators raise before the setattr loop; db.flush() raises
        \* after it, when a constraint of the table refuses the row
        /\ iterations' = GetDb(st, iterations,
               IF st = 200 \/ UpdateIterationFlushFails(p, id, patch)
               THEN [iterations EXCEPT ![id] =
                    [project_id |-> p,
                     start_date |-> Patched(patch.start_date, @.start_date),
                     end_date |-> Patched(patch.end_date, @.end_date),
                     working_days |-> IF patch.working_days = UnsetList
                                      THEN @.working_days
                                      ELSE IsoList(patch.working_days)]]
               ELSE iterations)
        /\ UNCHANGED <<projects, users, members, work_items, sessions,
                       drop_plan_items, next_id, txn>>

\* db.delete(iteration): the store deletes the sprint's drop_plan_items
\* (ondelete CASCADE) and nulls work_items.iteration_id (ondelete SET NULL).
DeleteIteration(p, id) ==
    LET found == id \in DOMAIN iterations /\ iterations[id].project_id = p
    IN  /\ resp' = Response("delete_iteration", IF found THEN 204 ELSE 404)
        /\ IF found
           THEN /\ iterations' = Drop(iterations, id)
                /\ drop_plan_items' =
                       [d \in {x \in DOMAIN drop_plan_items :
                                  drop_plan_items[x].iteration_id # id}
                          |-> drop_plan_items[d]]
                /\ work_items' =
                       [w \in DOMAIN work_items |->
                          IF work_items[w].iteration_id = id
                          THEN [work_items[w] EXCEPT !.iteration_id = NONE]
                          ELSE work_items[w]]
           ELSE UNCHANGED <<iterations, drop_plan_items, work_items>>
        /\ UNCHANGED <<projects, users, members, sessions, next_id, txn>>

\* ---------------------------------------------------------------- drop plan

\* The mutation of C9: table drop_plan_items without its unique constraint.
NoUniqueConstraint(rows, work_item_id, iteration_id) == FALSE

\* uq_dropplan_workitem_iteration: the store refuses a second row of the pair.
UniqueViolation(rows, work_item_id, iteration_id) ==
    \E d \in DOMAIN rows :
        rows[d].work_item_id = work_item_id /\ rows[d].iteration_id = iteration_id

\* The foreign keys of drop_plan_items to iterations and users.
ForeignKeyViolation(iteration_id, assigned_user_id) ==
    iteration_id \notin DOMAIN iterations \/ assigned_user_id \notin DOMAIN users

\* The mutation of C10: the duplicate check looks at the work item alone.
DuplicateAnySprint(work_item_id, iteration_id) ==
    \E d \in DOMAIN drop_plan_items : drop_plan_items[d].work_item_id = work_item_id

\* "Check for duplicate": the select of create_drop_plan_item finds a row.
DuplicateFound(work_item_id, iteration_id) ==
    \E d \in DOMAIN drop_plan_items :
        /\ drop_plan_items[d].work_item_id = work_item_id
        /\ drop_plan_items[d].iteration_id = iteration_id

\* The row create_drop_plan_item adds (order_index defaults to 0).
DropPlanRow(iteration_id, data) ==
    [iteration_id |-> iteration_id, work_item_id |-> data.work_item_id,
     assigned_user_id |-> data.assigned_user_id,
     planned_date |-> data.planned_date, order_index |-> 0]

\* db.flush() of the new row: 0 when the store takes it, 500 (IntegrityError)
\* when a constraint refuses it.
InsertStatus(iteration_id, data) ==
    IF ForeignKeyViolation(iteration_id, data.assigned_user_id) THEN 500
    ELSE IF UniqueViolation(drop_plan_items, data.work_item_id, iteration_id) THEN 500
    ELSE 0

\* create_drop_plan_item handled alone, from its first select to the commit.
CreateDropPlanStatus(iteration_id, data) ==
    IF data.work_item_id \notin DOMAIN work_items THEN 404
    ELSE IF DuplicateFound(data.work_item_id, iteration_id) THEN 409
    ELSE IF InsertStatus(iteration_id, data) # 0 THEN InsertStatus(iteration_id, data)
    ELSE 201

CreateDropPlanItem(iteration_id, data) ==
    LET st == CreateDropPlanStatus(iteration_id, data)
        id == next_id["drop_plan_items"]
    IN  /\ st = 201 => id <= MaxDropItems
        /\ resp' = Response("create_drop_plan_item", st)
        \* 404 and 409 are raised before db.add(item); a 500 comes from
        \* db.flush(), with the new row in the session
        /\ drop_plan_items' = GetDb(st, drop_plan_items,
               IF st \in {201, 500}
               THEN Put(drop_plan_items, id, DropPlanRow(iteration_id, data))
               ELSE drop_plan_items)
        /\ next_id' = IF st = 201
                      THEN [next_id EXCEPT !["drop_plan_items"] = id + 1]
                      ELSE next_id
        /\ UNCHANGED <<projects, users, members, iterations, work_items,
                       sessions, txn>>

\* update_drop_plan_item ("change date, user, order"): 500 when the flush meets
\* a null in a NOT NULL column or a user that does not exist.
UpdateDropPlanStatus(item_id, patch) ==
    IF item_id \notin DOMAIN drop_plan_items THEN 404
    ELSE IF patch.planned_date = NONE \/ patch.assigned_user_id = NONE
            \/ patch.order_index = NONE THEN 500
    ELSE IF patch.assigned_user_id # UNSET /\ patch.assigned_user_id \notin DOMAIN users
    THEN 500
    ELSE 200

UpdateDropPlanItem(item_id, patch) ==
    LET st == UpdateDropPlanStatus(item_id, patch)
    IN  /\ resp' = Response("update_drop_plan_item", st)
        /\ IF st = 200
           THEN drop_plan_items' = [drop_plan_items EXCEPT ![item_id] =
                    [iteration_id |-> @.iteration_id,
                     work_item_id |-> @.work_item_id,
                     assigned_user_id |-> Patched(patch.assigned_user_id, @.assigned_user_id),
                     planned_date |-> Patched(patch.planned_date, @.planned_date),
                     order_index |-> Patched(patch.order_index, @.order_index)]]
           ELSE UNCHANGED drop_plan_items
        /\ UNCHANGED <<projects, users, members, iterations, work_items,
                       sessions, next_id, txn>>

DeleteDropPlanItem(item_id) ==
    LET found == item_id \in DOMAIN drop_plan_items
    IN  /\ resp' = Response("delete_drop_plan_item", IF found THEN 204 ELSE 404)
        /\ drop_plan_items' = IF found THEN Drop(drop_plan_items, item_id)
                              ELSE drop_plan_items
        /\ UNCHANGED <<projects, users, members, iterations, work_items,
                       sessions, next_id, txn>>

\* ---- create_drop_plan_item as concurrent transactions (READ COMMITTED, the
\* ---- default of the PostgreSQL engine): every statement sees the rows
\* ---- committed so far; the inserted row is private until get_db commits.

\* The request r arrives and opens its transaction.
DpBegin(r, iteration_id, data) ==
    /\ r \notin DOMAIN txn
    /\ txn' = Put(txn, r, [pc |-> "select_item", iteration_id |-> iteration_id,
                           data |-> data, id |-> NONE, status |-> 0])
    /\ UNCHANGED <<projects, users, members, iterations, work_items, sessions,
                   drop_plan_items, next_id, resp>>

\* The request r ends with status st: its transaction is over.
DpEnd(r, st) ==
    /\ txn' = [txn EXCEPT ![r].pc = "done", ![r].status = st]
    /\ resp' = Response("create_drop_plan_item", st)

\* "Validate work item exists"
DpSelectItem(r) ==
    /\ r \in DOMAIN txn /\ txn[r].pc = "select_item"
    /\ IF txn[r].data.work_item_id \notin DOMAIN work_items
       THEN DpEnd(r, 404)
       ELSE txn' = [txn EXCEPT ![r].pc = "select_duplicate"] /\ UNCHANGED resp
    /\ UNCHANGED <<projects, users, members, iterations, work_items, sessions,
                   drop_plan_items, next_id>>

\* "Check for duplicate"
DpSelectDuplicate(r) ==
    /\ r \in DOMAIN txn /\ txn[r].pc = "select_duplicate"
    /\ IF DuplicateFound(txn[r].data.work_item_id, txn[r].iteration_id)
       THEN DpEnd(r, 409)
       ELSE txn' = [txn EXCEPT ![r].pc = "flush"] /\ UNCHANGED resp
    /\ UNCHANGED <<projects, users, members, iterations, work_items, sessions,
                   drop_plan_items, next_id>>

\* Another open transaction holds an uncommitted row of the same pair: the
\* INSERT waits for that transaction to end.
InsertWaits(r) ==
    \E o \in DOMAIN txn \ {r} :
        /\ txn[o].pc = "commit"
        /\ txn[o].data.work_item_id = txn[r].data.work_item_id
        /\ txn[o].iteration_id = txn[r].iteration_id

\* db.add + db.flush: the INSERT.  An IntegrityError is no HTTPException: get_db
\* rolls back and the request ends 500.
DpFlush(r) ==
    /\ r \in DOMAIN txn /\ txn[r].pc = "flush"
    /\ ~InsertWaits(r)
    /\ IF InsertStatus(txn[r].iteration_id, txn[r].data) # 0
       THEN DpEnd(r, 500) /\ UNCHANGED next_id
       ELSE /\ next_id["drop_plan_items"] <= MaxDropItems
            /\ txn' = [txn EXCEPT ![r].pc = "commit",
                                  ![r].id = next_id["drop_plan_items"]]
            /\ next_id' = [next_id EXCEPT !["drop_plan_items"] = @ + 1]
            /\ UNCHANGED resp
    /\ UNCHANGED <<projects, users, members, iterations, work_items, sessions,
                   drop_plan_items>>

\* The handler returns and get_db commits: the row becomes visible.
DpCommit(r) ==
    /\ r \in DOMAIN txn /\ txn[r].pc = "commit"
    /\ drop_plan_items' = Put(drop_plan_items, txn[r].id,
                              DropPlanRow(txn[r].iteration_id, txn[r].data))
    /\ DpEnd(r, 201)
    /\ UNCHANGED <<projects, users, members, iterations, work_items, sessions,
                   next_id>>

\* ------------------------------------------------------ members and users

\* project_members has project_id as its whole primary key: the store refuses
\* a second row of the project (IntegrityError at the flush).
MemberKeyViolation(p) == \E m \in members : m[1] = p

AddMemberStatus(p, u) ==
    IF u \notin DOMAIN users THEN 404
    ELSE IF <<p, u>> \in members THEN 409
    ELSE IF p \notin projects \/ MemberKeyViolation(p) THEN 500
    ELSE 201

AddProjectMember(p, u) ==
    /\ resp' = Response("add_project_member", AddMemberStatus(p, u))
    /\ members' = IF AddMemberStatus(p, u) = 201 THEN members \cup {<<p, u>>}
                  ELSE members
    /\ UNCHANGED <<projects, users, iterations, work_items, sessions,
                   drop_plan_items, next_id, txn>>

RemoveProjectMember(p, u) ==
    /\ resp' = Response("remove_project_member",
                        IF <<p, u>> \in members THEN 204 ELSE 404)
    /\ members' = members \ {<<p, u>>}
    /\ UNCHANGED <<projects, users, iterations, work_items, sessions,
                   drop_plan_items, next_id, txn>>

DeactivateUser(u) ==
    /\ resp' = Response("deactivate_user", IF u \in DOMAIN users THEN 204 ELSE 404)
    /\ users' = IF u \in DOMAIN users THEN [users EXCEPT ![u].is_active = FALSE]
                ELSE users
    /\ UNCHANGED <<projects, members, iterations, work_items, sessions,
                   drop_plan_items, next_id, txn>>

\* ----------------------------------------------------- capacity and load

\* sum(f[x] for x in S)
RECURSIVE SumOver(_, _)
SumOver(f, S) ==
    IF S = {} THEN 0
    ELSE LET x == CHOOSE y \in S : TRUE IN f[x] + SumOver(f, S \ {x})

\* wi.estimation_hours or Decimal(0)
EstimationOrZero(wi) ==
    IF work_items[wi].estimation_hours = NONE THEN 0
    ELSE work_items[wi].estimation_hours

\* The sum of the estimations of a set of drop plan rows.
PlannedHours(rows) ==
    SumOver([d \in rows |-> EstimationOrZero(drop_plan_items[d].work_item_id)], rows)

\* The outcome of a Decimal division by zero: decimal.DivisionByZero is raised.
DivisionByZero == -3

\* round(n / d * 100, 2) on Decimals, in hundredths of a percent, for n and d
\* in hundredths of an hour.
PercentOf(n, d) ==
    IF d = 0 THEN DivisionByZero
    ELSE LET q == (n * 10000) \div d
             r == (n * 10000) % d
         IN  IF 2 * r < d THEN q
             ELSE IF 2 * r > d THEN q + 1
             ELSE IF q % 2 = 0 THEN q ELSE q + 1

\* The mutation of C16: the members query without User.is_active == True.
AllMembers(p) == {m \in members : m[1] = p /\ m[2] \in DOMAIN users}

\* The rows of the members query of get_iteration_capacity.
ActiveMembers(p) ==
    {m \in members : m[1] = p /\ m[2] \in DOMAIN users /\ users[m[2]].is_active}

\* The mutation of C17: the utilization is divided without looking at the
\* capacity.
UtilizationUnguarded(total_planned, total_capacity) ==
    PercentOf(total_planned, total_capacity)

\* (planned / capacity * 100) if capacity > 0 else Decimal(0), rounded.
Utilization(total_planned, total_capacity) ==
    IF total_capacity > 0 THEN PercentOf(total_planned, total_capacity) ELSE 0

\* planned_by_day.get(day, Decimal(0)): the estimations of the sprint's plan
\* items whose planned_date is the day.
PlannedByDay(it, day) ==
    PlannedHours({d \in DOMAIN drop_plan_items :
                     /\ drop_plan_items[d].iteration_id = it
                     /\ drop_plan_items[d].planned_date = day})

\* capacity_by_day: one entry for each element of working_days, in its order.
CapacityByDay(p, it) ==
    LET mems == ActiveMembers(p)
        capacity_per_day_total ==
            SumOver([m \in mems |-> users[m[2]].capacity_per_day], mems)
    IN  [i \in DOMAIN iterations[it].working_days |->
            LET day == FromIsoFormat(iterations[it].working_days[i])
            IN  [date |-> day,
                 total_capacity |-> capacity_per_day_total,
                 total_planned |-> PlannedByDay(it, day),
                 is_overcommitted |-> PlannedByDay(it, day) > capacity_per_day_total]]

\* The mutation of C29: planned_by_user adds up the user's plan items of every
\* sprint.
PlannedByUserAnySprint(p, it, u) ==
    PlannedHours({d \in DOMAIN drop_plan_items :
                     drop_plan_items[d].assigned_user_id = u})

\* planned_by_user.get(user.id, Decimal(0)): the estimations of the sprint's
\* plan items assigned to the user.
PlannedByUser(p, it, u) ==
    PlannedHours({d \in DOMAIN drop_plan_items :
                     /\ drop_plan_items[d].iteration_id = it
                     /\ drop_plan_items[d].assigned_user_id = u})

\* capacity_by_user: one entry for each row of the members query, here by the
\* user's id.
CapacityByUser(p, it) ==
    LET num_days == Len(iterations[it].working_days)
    IN  [u \in {m[2] : m \in ActiveMembers(p)} |->
            [total_capacity |-> users[u].capacity_per_day * num_days,
             total_planned |-> PlannedByUser(p, it, u),
             utilization_percent |->
                 Utilization(PlannedByUser(p, it, u),
                             users[u].capacity_per_day * num_days)]]

\* The body get_iteration_capacity builds for project p and sprint it.
IterationCapacity(p, it) ==
    LET num_days == Len(iterations[it].working_days)
        mems == ActiveMembers(p)
        items == {d \in DOMAIN drop_plan_items : drop_plan_items[d].iteration_id = it}
        total_capacity ==
            SumOver([m \in mems |-> users[m[2]].capacity_per_day * num_days], mems)
        total_planned == PlannedHours(items)
        by_user == [m \in mems |->
                      Utilization(PlannedHours({d \in items :
                                      drop_plan_items[d].assigned_user_id = m[2]}),
                                  users[m[2]].capacity_per_day * num_days)]
    IN  [raised |-> Utilization(total_planned, total_capacity) = DivisionByZero
                    \/ \E m \in mems : by_user[m] = DivisionByZero,
         total_capacity |-> total_capacity,
         total_planned |-> total_planned,
         utilization_percent |-> Utilization(total_planned, total_capacity),
         is_overcommitted |-> total_planned > total_capacity,
         capacity_by_day |-> CapacityByDay(p, it),
         capacity_by_user |-> CapacityByUser(p, it)]

GetIterationCapacity(p, it) ==
    /\ resp' = IF it \notin DOMAIN iterations
               THEN Response("get_iteration_capacity", 404)
               ELSE IF IterationCapacity(p, it).raised
               THEN Response("get_iteration_capacity", 500)
               ELSE [op |-> "get_iteration_capacity", status |-> 200,
                     project_id |-> p, iteration_id |-> it,
                     total_capacity |-> IterationCapacity(p, it).total_capacity,
                     total_planned |-> IterationCapacity(p, it).total_planned,
                     utilization_percent |->
                         IterationCapacity(p, it).utilization_percent,
                     is_overcommitted |-> IterationCapacity(p, it).is_overcommitted,
                     capacity_by_day |-> IterationCapacity(p, it).capacity_by_day,
                     capacity_by_user |-> IterationCapacity(p, it).capacity_by_user]
    /\ UNCHANGED <<projects, users, members, iterations, work_items, sessions,
                   drop_plan_items, next_id, txn>>

\* ---- get_user_drop_plan

\* The mutation of C19: the day's load is looked up by the stored ISO string,
\* which is no key of load_by_day_data, so that the default 0 comes back.
LoadByDayDataUnconverted(it, u, day) == 0

\* load_by_day_data.get(day, Decimal(0)): the estimations of the user's plan
\* items of the sprint whose planned_date is the day.
LoadByDayData(it, u, day) ==
    PlannedHours({d \in DOMAIN drop_plan_items :
                     /\ drop_plan_items[d].iteration_id = it
                     /\ drop_plan_items[d].assigned_user_id = u
                     /\ drop_plan_items[d].planned_date = day})

\* The mutation of C18: a day planned up to the capacity counts as overcommitted.
OvercommittedAtCapacity(planned, capacity) == planned >= capacity

\* is_overcommitted = planned > user.capacity_per_day
Overcommitted(planned, capacity) == planned > capacity

\* load_by_day: one entry for each element of the sprint's working_days.
UserLoadByDay(it, u) ==
    [n \in DOMAIN iterations[it].working_days |->
        LET day == FromIsoFormat(iterations[it].working_days[n])
        IN  [date |-> day,
             capacity |-> users[u].capacity_per_day,
             planned |-> LoadByDayData(it, u, day),
             is_overcommitted |->
                 Overcommitted(LoadByDayData(it, u, day), users[u].capacity_per_day)]]

\* get_user_drop_plan; of the body, load_by_day is kept.
GetUserDropPlan(it, u) ==
    /\ resp' = IF it \notin DOMAIN iterations \/ u \notin DOMAIN users
               THEN Response("get_user_drop_plan", 404)
               ELSE [op |-> "get_user_drop_plan", status |-> 200,
                     iteration_id |-> it, user_id |-> u,
                     load_by_day |-> UserLoadByDay(it, u)]
    /\ UNCHANGED <<projects, users, members, iterations, work_items, sessions,
                   drop_plan_items, next_id, txn>>

\* ----------------------------------------------------------- specifications

\* The bodies a client can send to update_work_session: each field unsent,
\* null (ended_at only; started_at has no null in the spec's data model) or set.
SessionPatches ==
    [started_at : {UNSET} \cup Instants, ended_at : {UNSET, NONE} \cup Instants]

\* Work sessions over the seeded project; item 3 is no Task, item 6 and
\* project 2 do not exist here.
SessionInit ==
    /\ projects = {1}
    /\ users = NoRows
    /\ members = {}
    /\ iterations = NoRows
    /\ work_items = SeedItems
    /\ sessions = NoRows
    /\ drop_plan_items = NoRows
    /\ next_id = [t \in Tables |-> IF t = "work_items" THEN 6
                                  ELSE IF t = "projects" THEN 2 ELSE 1]
    /\ txn = NoRows
    /\ resp = Response("startup", 200)

SessionNext ==
    \/ \E p \in {1, 2}, wi \in 3..6, s \in Instants, e \in Instants \cup {NONE} :
          CreateWorkSession(p, wi, s, e)
    \/ \E wi \in 4..5, sid \in 1..(MaxSessions + 1), patch \in SessionPatches :
          UpdateWorkSession(wi, sid, patch)
    \/ \E wi \in 4..5, sid \in 1..(MaxSessions + 1) :
          DeleteWorkSession(wi, sid)

SessionSpec == SessionInit /\ [][SessionNext]_vars

\* The instants the clock can show when a response is built.
Clock == 0..(MaxTime + 1)

\* Task 4 has an estimation of one hour, task 5 has none.
HoursInit ==
    /\ projects = {1}
    /\ users = NoRows
    /\ members = {}
    /\ iterations = NoRows
    /\ work_items = [SeedItems EXCEPT ![5].estimation_hours = NONE]
    /\ sessions = NoRows
    /\ drop_plan_items = NoRows
    /\ next_id = [t \in Tables |-> IF t = "work_items" THEN 6
                                  ELSE IF t = "projects" THEN 2 ELSE 1]
    /\ txn = NoRows
    /\ resp = Response("startup", 200)

HoursNext ==
    \/ \E wi \in 4..5, s \in Instants, e \in Instants \cup {NONE} :
          CreateWorkSession(1, wi, s, e)
    \/ \E wi \in 4..5, sid \in 1..(MaxSessions + 1), patch \in SessionPatches :
          UpdateWorkSession(wi, sid, patch)
    \/ \E wi \in 4..5, sid \in 1..(MaxSessions + 1) :
          DeleteWorkSession(wi, sid)
    \/ \E wi \in 4..6, now \in Clock : GetWorkItem(1, wi, now)

HoursSpec == HoursInit /\ [][HoursNext]_vars

\* The working_days lists a client sends here: none or one day.
WorkingDayLists == {<<>>} \cup {<<d>> : d \in Dates}

IterationBodies ==
    [start_date : Dates, end_date : Dates, working_days : WorkingDayLists]

IterationPatches ==
    [start_date : {UNSET, NONE} \cup Dates, end_date : {UNSET, NONE} \cup Dates,
     working_days : {UnsetList, NoneList} \cup WorkingDayLists]

\* Sprints over two projects made by create_project.
IterationInit ==
    /\ projects = {1, 2}
    /\ users = NoRows
    /\ members = {}
    /\ iterations = NoRows
    /\ work_items = NoRows
    /\ sessions = NoRows
    /\ drop_plan_items = NoRows
    /\ next_id = [t \in Tables |-> IF t = "projects" THEN 3 ELSE 1]
    /\ txn = NoRows
    /\ resp = Response("startup", 200)

IterationNext ==
    \/ \E p \in ProjectIds, data \in IterationBodies : CreateIteration(p, data)
    \/ \E p \in ProjectIds, id \in 1..(MaxIterations + 1), patch \in IterationPatches :
          UpdateIteration(p, id, patch)
    \/ \E p \in ProjectIds, id \in 1..(MaxIterations + 1) : DeleteIteration(p, id)

IterationSpec == IterationInit /\ [][IterationNext]_vars

\* The requests that move sprints: the two projects exist, working_days are
\* empty or not sent.
RangeBodies == [start_date : Dates, end_date : Dates, working_days : {<<>>}]

RangePatches ==
    [start_date : {UNSET, NONE} \cup Dates, end_date : {UNSET, NONE} \cup Dates,
     working_days : {UnsetList, <<>>}]

RangeNext ==
    \/ \E p \in {1, 2}, data \in RangeBodies : CreateIteration(p, data)
    \/ \E p \in {1, 2}, id \in 1..(MaxIterations + 1), patch \in RangePatches :
          UpdateIteration(p, id, patch)
    \/ \E p \in {1, 2}, id \in 1..(MaxIterations + 1) : DeleteIteration(p, id)

RangeSpec == IterationInit /\ [][RangeNext]_vars

ItemIds == 1..(MaxItems + 1)

\* The fields of a body that the hierarchy does not read stay unsent or null.
ItemBodies ==
    [type : WorkItemType, parent_id : {NONE} \cup ItemIds,
     assigned_to : {NONE}, iteration_id : {NONE}, estimation_hours : {UNSET},
     start_date : {NONE}, end_date : {NONE}]

\* Patches of type and parent_id: what the hierarchy rules are about.
ItemPatches ==
    [type : {UnsetStr} \cup WorkItemType, state : {UnsetStr},
     parent_id : {UNSET, NONE} \cup ItemIds,
     assigned_to : {UNSET}, iteration_id : {UNSET}, estimation_hours : {UNSET},
     start_date : {UNSET}, end_date : {UNSET}]

\* Patches of state and parent_id: what the Removed cascade reads and writes.
CascadePatches ==
    [type : {UnsetStr}, state : {UnsetStr, NEW_, REMOVED},
     parent_id : {UNSET, NONE} \cup ItemIds,
     assigned_to : {UNSET}, iteration_id : {UNSET}, estimation_hours : {UNSET},
     start_date : {UNSET}, end_date : {UNSET}]

\* The work item tree of one project, from an empty work_items table; project 2
\* does not exist here.
ItemInit ==
    /\ projects = {1}
    /\ users = NoRows
    /\ members = {}
    /\ iterations = NoRows
    /\ work_items = NoRows
    /\ sessions = NoRows
    /\ drop_plan_items = NoRows
    /\ next_id = [t \in Tables |-> IF t = "projects" THEN 2 ELSE 1]
    /\ txn = NoRows
    /\ resp = Response("startup", 200)

ItemNext ==
    \/ \E p \in {1, 2}, data \in ItemBodies : CreateWorkItem(p, data)
    \/ \E p \in {1, 2}, id \in ItemIds, patch \in ItemPatches :
          UpdateWorkItem(p, id, patch)

ItemSpec == ItemInit /\ [][ItemNext]_vars

CascadeNext ==
    \/ \E data \in ItemBodies : CreateWorkItem(1, data)
    \/ \E id \in ItemIds, patch \in CascadePatches : UpdateWorkItem(1, id, patch)

CascadeSpec == ItemInit /\ [][CascadeNext]_vars

\* Two active users; user 1 made project 1 and is its member.
SeedUsers ==
    (1 :> [is_active |-> TRUE, capacity_per_day |-> 800]) @@
    (2 :> [is_active |-> TRUE, capacity_per_day |-> 800])

\* Two touching sprints of project 1, as create_iteration stores them.
SeedIterations ==
    (1 :> [project_id |-> 1, start_date |-> 1, end_date |-> 2,
           working_days |-> IsoList(<<1>>)]) @@
    (2 :> [project_id |-> 1, start_date |-> 2, end_date |-> 3,
           working_days |-> IsoList(<<2>>)])

\* The bodies of create_drop_plan_item: work item 6, sprint 3 and user 3 do
\* not exist.
DropPlanBodies ==
    [work_item_id : {4, 5, 6}, assigned_user_id : {1, 2, 3}, planned_date : Dates]

DropPlanPatches ==
    [assigned_user_id : {UNSET, NONE, 1, 2, 3}, planned_date : {UNSET} \cup Dates,
     order_index : {UNSET}]

DropPlanInit ==
    /\ projects = {1}
    /\ users = SeedUsers
    /\ members = {<<1, 1>>}
    /\ iterations = SeedIterations
    /\ work_items = SeedItems
    /\ sessions = NoRows
    /\ drop_plan_items = NoRows
    /\ next_id = [t \in Tables |->
                    CASE t = "projects" -> 2 [] t = "users" -> 3
                      [] t = "iterations" -> 3 [] t = "work_items" -> 6
                      [] OTHER -> 1]
    /\ txn = NoRows
    /\ resp = Response("startup", 200)

DropPlanNext ==
    \/ \E it \in 1..3, data \in DropPlanBodies : CreateDropPlanItem(it, data)
    \/ \E id \in 1..(MaxDropItems + 1), patch \in DropPlanPatches :
          UpdateDropPlanItem(id, patch)
    \/ \E id \in 1..(MaxDropItems + 1) : DeleteDropPlanItem(id)

DropPlanSpec == DropPlanInit /\ [][DropPlanNext]_vars

Requests == 1..MaxRequests

\* Concurrent create_drop_plan_item requests, each its own transaction, next to
\* deletes that commit in between.
RaceNext ==
    \/ \E r \in Requests, it \in 1..3, data \in DropPlanBodies : DpBegin(r, it, data)
    \/ \E r \in Requests : DpSelectItem(r)
    \/ \E r \in Requests : DpSelectDuplicate(r)
    \/ \E r \in Requests : DpFlush(r)
    \/ \E r \in Requests : DpCommit(r)
    \/ \E id \in 1..(MaxDropItems + 1) : DeleteDropPlanItem(id)

RaceSpec == DropPlanInit /\ [][RaceNext]_vars

\* User 1 works eight hours a day, user 2 one hour.
PlanUsers ==
    (1 :> [is_active |-> TRUE, capacity_per_day |-> 800]) @@
    (2 :> [is_active |-> TRUE, capacity_per_day |-> 100])

\* Two touching sprints of project 1: the first with two working days, the
\* second with none.
PlanIterations ==
    (1 :> [project_id |-> 1, start_date |-> 1, end_date |-> 2,
           working_days |-> IsoList(<<1, 2>>)]) @@
    (2 :> [project_id |-> 1, start_date |-> 2, end_date |-> 3,
           working_days |-> IsoList(<<>>)])

PlanInit ==
    /\ projects = {1}
    /\ users = PlanUsers
    /\ members = {<<1, 1>>}
    /\ iterations = PlanIterations
    /\ work_items = SeedItems
    /\ sessions = NoRows
    /\ drop_plan_items = NoRows
    /\ next_id = [t \in Tables |->
                    CASE t = "projects" -> 2 [] t = "users" -> 3
                      [] t = "iterations" -> 3 [] t = "work_items" -> 6
                      [] OTHER -> 1]
    /\ txn = NoRows
    /\ resp = Response("startup", 200)

\* The plan items made here: the User Story 3 has no estimation, the Tasks 4
\* and 5 one hour each.
PlanBodies ==
    [work_item_id : {3, 4, 5}, assigned_user_id : {1, 2}, planned_date : {1, 2}]

CapacityNext ==
    \/ \E p \in {1, 2}, u \in 1..3 : AddProjectMember(p, u)
    \/ \E p \in {1, 2}, u \in 1..3 : RemoveProjectMember(p, u)
    \/ \E u \in 1..3 : DeactivateUser(u)
    \/ \E it \in {1, 2}, data \in PlanBodies : CreateDropPlanItem(it, data)
    \/ \E p \in {1, 2}, it \in 1..3 : GetIterationCapacity(p, it)

CapacitySpec == PlanInit /\ [][CapacityNext]_vars

PlanPatches ==
    [assigned_user_id : {UNSET, 1, 2}, planned_date : {UNSET, 1, 2},
     order_index : {UNSET}]

PlanNext ==
    \/ \E it \in {1, 2}, data \in PlanBodies : CreateDropPlanItem(it, data)
    \/ \E id \in 1..(MaxDropItems + 1), patch \in PlanPatches :
          UpdateDropPlanItem(id, patch)
    \/ \E id \in 1..(MaxDropItems + 1) : DeleteDropPlanItem(id)
    \/ \E it \in 1..3, u \in 1..3 : GetUserDropPlan(it, u)

PlanSpec == PlanInit /\ [][PlanNext]_vars

\* ------------------------------------------------------------------ claims

\* C1 (as claimed): in every state reachable by create, update and delete of
\* work sessions each task has at most one open session (ended_at null).
C1_AtMostOneOpenSession ==
    \A wi \in DOMAIN work_items : Cardinality(OpenSessions(wi)) <= 1

\* C2 (as claimed): a well-formed create_work_session on a task that has an open
\* session answers 409 and adds no session; on a task with no open session a
\* create of an open session succeeds.
C2_SecondOpenRejected ==
    [][\A p \in ProjectIds, wi \in 4..5, s \in Instants :
          CreateWorkSession(p, wi, s, NONE) /\ ItemInProject(wi, p) =>
              IF OpenSessions(wi) # {}
              THEN resp'.status = 409 /\ sessions' = sessions
              ELSE resp'.status = 201 /\ OpenSessions(wi)' = {next_id["sessions"]}]_vars

\* C3: in every state reachable by create_iteration, update_iteration and
\* delete_iteration no two sprints of one project have intersecting half-open
\* ranges [start_date, end_date).
C3_NoOverlappingSprints ==
    \A i, j \in DOMAIN iterations :
        i # j /\ iterations[i].project_id = iterations[j].project_id =>
            ~\E d \in Dates :
                /\ iterations[i].start_date <= d /\ d < iterations[i].end_date
                /\ iterations[j].start_date <= d /\ d < iterations[j].end_date

\* C3 witness: after a successful update_iteration, two sprints of one project
\* touch: the one ends on the day the other starts.
C3_Witness ==
    /\ resp = Response("update_iteration", 200)
    /\ \E i, j \in DOMAIN iterations :
          /\ i # j
          /\ iterations[i].project_id = iterations[j].project_id
          /\ iterations[i].end_date = iterations[j].start_date

\* C4 (as claimed): every stored working day of a sprint lies within the
\* sprint's current [start_date, end_date].
C4_WorkingDaysInRange ==
    \A i \in DOMAIN iterations :
        \A n \in DOMAIN iterations[i].working_days :
            /\ iterations[i].start_date <= FromIsoFormat(iterations[i].working_days[n])
            /\ FromIsoFormat(iterations[i].working_days[n]) <= iterations[i].end_date

\* C5 (as claimed): in every state reachable by create_work_item and
\* update_work_item every Feature has an Epic parent, every UserStory a Feature
\* parent and every Task a UserStory parent; no non-Epic item lacks a parent.
C5_ParentOfCorrectType ==
    \A w \in DOMAIN work_items :
        work_items[w].type # EPIC =>
            /\ work_items[w].parent_id \in DOMAIN work_items
            /\ work_items[work_items[w].parent_id].type = ValidParent(work_items[w].type)

\* x is reached from y by following parent_id at most n times.
RECURSIVE HasAncestor(_, _, _, _)
HasAncestor(items, y, x, n) ==
    /\ n > 0
    /\ y \in DOMAIN items
    /\ items[y].parent_id # NONE
    /\ \/ items[y].parent_id = x
       \/ HasAncestor(items, items[y].parent_id, x, n - 1)

IsDescendant(items, y, x) == HasAncestor(items, y, x, Cardinality(DOMAIN items))

\* C6: when update_work_item sets an item's state to Removed (and answers 200),
\* every descendant of the item, at any depth, has state Removed afterwards.
C6_CascadeReachesAllDescendants ==
    [][\A id \in ItemIds, patch \in CascadePatches :
          UpdateWorkItem(1, id, patch) /\ patch.state = REMOVED
          /\ resp'.status = 200 =>
              \A y \in DOMAIN work_items' :
                  IsDescendant(work_items', y, id) => work_items'[y].state = REMOVED]_vars

\* C6 witness: a chain x > y > z whose rows are all Removed right after an
\* update, in a table where some other row is not Removed.
C6_Witness ==
    /\ resp = Response("update_work_item", 200)
    /\ \E x, y, z \in DOMAIN work_items :
          /\ work_items[z].parent_id = y /\ work_items[y].parent_id = x
          /\ work_items[x].parent_id = NONE
          /\ \A w \in {x, y, z} : work_items[w].state = REMOVED

\* C7: the cascade started by setting item id to Removed changes the state of no
\* work item other than id and its descendants.
C7_CascadeLeavesOthers ==
    [][\A id \in ItemIds, patch \in CascadePatches :
          UpdateWorkItem(1, id, patch) /\ patch.state = REMOVED =>
              \A y \in DOMAIN work_items :
                  y # id /\ ~IsDescendant(work_items, y, id) =>
                      work_items'[y].state = work_items[y].state]_vars

\* C7 witness: right after an update, a Removed item with a Removed child next
\* to an item that is neither of them nor below them and is not Removed.
C7_Witness ==
    /\ resp = Response("update_work_item", 200)
    /\ \E x, c, o \in DOMAIN work_items :
          /\ work_items[c].parent_id = x
          /\ work_items[x].state = REMOVED /\ work_items[c].state = REMOVED
          /\ o # x /\ ~IsDescendant(work_items, o, x)
          /\ work_items[o].state # REMOVED

\* C8 (as claimed): once a work item's state is Removed no operation changes it
\* to another value.
C8_RemovedIsFinal ==
    [][\A w \in DOMAIN work_items :
          work_items[w].state = REMOVED => work_items'[w].state = REMOVED]_vars

\* C9: in every reachable state, also under interleaved concurrent
\* create_drop_plan_item requests for one work item and sprint, there is at
\* most one DropPlanItem per (work_item_id, iteration_id).
C9_OnePlanItemPerPair ==
    \A a, b \in DOMAIN drop_plan_items :
        /\ drop_plan_items[a].work_item_id = drop_plan_items[b].work_item_id
        /\ drop_plan_items[a].iteration_id = drop_plan_items[b].iteration_id
        => a = b

\* C9 witness: two requests for the same pair both passed the duplicate check;
\* one committed its row and the other's insert was refused by the store.
C9_Witness ==
    \E r, o \in DOMAIN txn :
        /\ txn[r].data.work_item_id = txn[o].data.work_item_id
        /\ txn[r].iteration_id = txn[o].iteration_id
        /\ ~ForeignKeyViolation(txn[o].iteration_id, txn[o].data.assigned_user_id)
        /\ txn[r].pc = "done" /\ txn[r].status = 201
        /\ txn[o].pc = "done" /\ txn[o].status = 500
        /\ txn[r].id \in DOMAIN drop_plan_items

C11_Conflicting(p, start_date, end_date, self) ==
    {i \in DOMAIN iterations \ {self} :
        /\ iterations[i].project_id = p
        /\ iterations[i].start_date < end_date
        /\ iterations[i].end_date > start_date}

\* The dates an update_iteration request asks for: the sent ones, else the
\* stored ones.
C11_Asked(sent, stored) == IF sent = UNSET THEN stored ELSE sent

\* C11: a create_iteration, or an update_iteration that sends a date, with
\* valid dates is refused (nothing stored) exactly when another sprint of the
\* project intersects the new half-open range; touching ranges and the
\* sprint's own previous range do not count.
C11_RejectedIffOverlap ==
    [][/\ resp'.op = "create_iteration" =>
            \A p \in {1, 2}, data \in RangeBodies :
               /\ data.start_date < data.end_date
               /\ CreateIteration(p, data)
               => /\ resp'.status = 201
                      <=> C11_Conflicting(p, data.start_date, data.end_date, NONE) = {}
                  /\ resp'.status # 201 =>
                        resp'.status \in {409, 500} /\ iterations' = iterations
       /\ resp'.op = "update_iteration" =>
            \A id \in DOMAIN iterations, patch \in RangePatches :
               LET p == iterations[id].project_id
                   s == C11_Asked(patch.start_date, iterations[id].start_date)
                   e == C11_Asked(patch.end_date, iterations[id].end_date)
               IN  /\ patch.start_date # UNSET \/ patch.end_date # UNSET
                   /\ s # NONE /\ e # NONE /\ s < e
                   /\ UpdateIteration(p, id, patch)
                   => /\ resp'.status = 200 <=> C11_Conflicting(p, s, e, id) = {}
                      /\ resp'.status # 200 =>
                            resp'.status \in {409, 500} /\ iterations' = iterations]_vars

\* C11 witness: an update_iteration with dates was accepted and left the sprint
\* on [1, 2) next to a sprint of the same project that starts on day 2.
C11_Witness ==
    /\ resp = Response("update_iteration", 200)
    /\ \E i, j \in DOMAIN iterations :
          /\ i # j
          /\ iterations[i].project_id = iterations[j].project_id
          /\ iterations[i].start_date = 1 /\ iterations[i].end_date = 2
          /\ iterations[j].start_date = 2

\* C12: whenever the new range of a create_iteration or update_iteration with
\* valid dates overlaps one or more sprints of the project, the request ends
\* with the conflict error 409.
C12_OverlapIsConflict ==
    [][/\ resp'.op = "create_iteration" =>
            \A p \in {1, 2}, data \in RangeBodies :
               /\ data.start_date < data.end_date
               /\ C11_Conflicting(p, data.start_date, data.end_date, NONE) # {}
               /\ CreateIteration(p, data)
               => resp'.status = 409
       /\ resp'.op = "update_iteration" =>
            \A id \in DOMAIN iterations, patch \in RangePatches :
               LET p == iterations[id].project_id
                   s == C11_Asked(patch.start_date, iterations[id].start_date)
                   e == C11_Asked(patch.end_date, iterations[id].end_date)
               IN  /\ patch.start_date # UNSET \/ patch.end_date # UNSET
                   /\ s # NONE /\ e # NONE /\ s < e
                   /\ C11_Conflicting(p, s, e, id) # {}
                   /\ UpdateIteration(p, id, patch)
                   => resp'.status = 409]_vars

\* C13: every stored sprint ends strictly after it starts, and a
\* create_iteration or an update_iteration of an existing sprint whose
\* resulting dates have start_date >= end_date is refused with a validation
\* error (422 from the schema, 400 from validate_dates) and stores nothing.
C13_EndAfterStart ==
    /\ [](\A i \in DOMAIN iterations :
              iterations[i].end_date > iterations[i].start_date)
    /\ [][/\ resp'.op = "create_iteration" =>
               \A p \in {1, 2}, data \in RangeBodies :
                  data.start_date >= data.end_date /\ CreateIteration(p, data)
                  => resp'.status \in {400, 422} /\ iterations' = iterations
          /\ resp'.op = "update_iteration" =>
               \A id \in DOMAIN iterations, patch \in RangePatches :
                  LET p == iterations[id].project_id
                      s == C11_Asked(patch.start_date, iterations[id].start_date)
                      e == C11_Asked(patch.end_date, iterations[id].end_date)
                  IN  /\ s # NONE /\ e # NONE /\ s >= e
                      /\ UpdateIteration(p, id, patch)
                      => resp'.status = 400 /\ iterations' = iterations]_vars

\* C13 witness: an update_iteration of a stored sprint was refused with 400;
\* no working days are sent here, so the refusal is the one of validate_dates.
C13_Witness ==
    /\ resp = Response("update_iteration", 400)
    /\ iterations # NoRows

\* The exact sum of total_hours over the closed sessions of item wi among the
\* sessions numbered up to n.
RECURSIVE C14_ClosedSum(_, _)
C14_ClosedSum(wi, n) ==
    IF n = 0 THEN 0
    ELSE C14_ClosedSum(wi, n - 1)
         + (IF n \in DOMAIN sessions /\ sessions[n].work_item_id = wi
               /\ sessions[n].ended_at # NONE
            THEN sessions[n].total_hours ELSE 0)

\* C14: the completed hours a read returns for a task are the sum of
\* total_hours of its closed sessions plus, when it has an open session, the
\* elapsed time max(0, now - started_at) in hours to two decimals (here: in
\* hundredths h of an hour, of k units of 0.005 hour, within half a
\* hundredth); with only closed sessions the result is the same for every now.
C14_CompletedHours ==
    /\ resp.op = "get_work_item" /\ resp.status = 200 =>
          LET wi == resp.work_item_id
              closed == C14_ClosedSum(wi, MaxSessions + 1)
              open == {s \in DOMAIN sessions :
                          sessions[s].work_item_id = wi /\ sessions[s].ended_at = NONE}
          IN  IF open = {} THEN resp.completed_hours = closed
              ELSE \E s \in open :
                      LET d == resp.now - sessions[s].started_at
                          k == IF d > 0 THEN d ELSE 0
                          h == resp.completed_hours - closed
                      IN  2 * h - k \in {-1, 0, 1}
    /\ \A wi \in DOMAIN work_items :
          (\A s \in DOMAIN sessions :
               sessions[s].work_item_id = wi => sessions[s].ended_at # NONE)
          => \A n1, n2 \in Clock :
                 ComputeHours(wi, n1).completed = ComputeHours(wi, n2).completed

\* C14 witness: a read of a task with a closed session of some length and an
\* open session that started after the instant of the read.
C14_Witness ==
    /\ resp.op = "get_work_item" /\ resp.status = 200
    /\ \E c, o \in DOMAIN sessions :
          /\ sessions[c].work_item_id = resp.work_item_id
          /\ sessions[o].work_item_id = resp.work_item_id
          /\ sessions[c].ended_at # NONE /\ sessions[c].total_hours > 0
          /\ sessions[o].ended_at = NONE /\ sessions[o].started_at > resp.now
          /\ resp.completed_hours = sessions[c].total_hours

\* C15: the remaining hours a read returns are estimation_hours minus the
\* completed hours when the item has an estimation and null otherwise; with no
\* session at all completed hours are 0 and remaining hours the estimation.
C15_RemainingHours ==
    resp.op = "get_work_item" /\ resp.status = 200 =>
        LET wi == resp.work_item_id
            est == work_items[wi].estimation_hours
            open == {s \in DOMAIN sessions :
                        sessions[s].work_item_id = wi /\ sessions[s].ended_at = NONE}
        IN  /\ est = NONE => resp.remaining_hours = NONE
            /\ est # NONE =>
                  /\ resp.remaining_hours = est - resp.completed_hours
                  /\ open = {} =>
                        resp.remaining_hours = est - C14_ClosedSum(wi, MaxSessions + 1)
            /\ (\A s \in DOMAIN sessions : sessions[s].work_item_id # wi)
                  => resp.completed_hours = 0 /\ resp.remaining_hours = est

\* C15 witness: a read of the estimated task while its open session has run
\* for some time, so that less than the estimation remains.
C15_Witness ==
    /\ resp.op = "get_work_item" /\ resp.status = 200
    /\ work_items[resp.work_item_id].estimation_hours # NONE
    /\ resp.completed_hours > 0
    /\ resp.remaining_hours < work_items[resp.work_item_id].estimation_hours
    /\ \E s \in DOMAIN sessions :
          sessions[s].work_item_id = resp.work_item_id /\ sessions[s].ended_at = NONE

\* The capacity the users numbered up to n add to project p over a sprint of
\* days working days: capacity_per_day times days for an active member.
RECURSIVE C16_Capacity(_, _, _)
C16_Capacity(p, days, n) ==
    IF n = 0 THEN 0
    ELSE C16_Capacity(p, days, n - 1)
         + (IF n \in DOMAIN users /\ <<p, n>> \in members /\ users[n].is_active
            THEN users[n].capacity_per_day * days ELSE 0)

\* C16: the total_capacity get_iteration_capacity returns is the sum, over
\* the members of the project whose user is active, of capacity_per_day times
\* the number of working days of the sprint; deactivated users add nothing.
C16_TotalCapacity ==
    resp.op = "get_iteration_capacity" /\ resp.status = 200 =>
        resp.total_capacity =
            C16_Capacity(resp.project_id,
                         Len(iterations[resp.iteration_id].working_days),
                         next_id["users"])

\* C16 witness: the capacity of the sprint with working days was read while
\* the project's only member is deactivated.
C16_Witness ==
    /\ resp.op = "get_iteration_capacity" /\ resp.status = 200
    /\ iterations[resp.iteration_id].working_days # <<>>
    /\ \E u \in DOMAIN users :
          <<resp.project_id, u>> \in members /\ ~users[u].is_active
    /\ resp.total_capacity = 0

\* C17: with no active member of the project, or no working day in the
\* sprint, get_iteration_capacity answers 200 with total_capacity 0 and
\* utilization_percent 0, whatever is planned.
C17_NoCapacityNoDivision ==
    (resp.op = "get_iteration_capacity" /\ resp.status # 404) =>
        LET p == resp.project_id
            it == resp.iteration_id
        IN  /\ resp.status = 200
            /\ (iterations[it].working_days = <<>>
                \/ ~\E u \in DOMAIN users : <<p, u>> \in members /\ users[u].is_active)
               => resp.total_capacity = 0 /\ resp.utilization_percent = 0

\* C17 witness: the capacity of a sprint with planned hours was read while the
\* project has no active member.
C17_Witness ==
    /\ resp.op = "get_iteration_capacity" /\ resp.status = 200
    /\ resp.total_planned > 0
    /\ iterations[resp.iteration_id].working_days # <<>>
    /\ ~\E u \in DOMAIN users :
           <<resp.project_id, u>> \in members /\ users[u].is_active

\* The estimation hours, null counting as 0, of the plan items numbered up to n
\* that user u has in sprint it on the day.
RECURSIVE C18_Planned(_, _, _, _)
C18_Planned(it, u, day, n) ==
    IF n = 0 THEN 0
    ELSE C18_Planned(it, u, day, n - 1)
         + (IF /\ n \in DOMAIN drop_plan_items
               /\ drop_plan_items[n].iteration_id = it
               /\ drop_plan_items[n].assigned_user_id = u
               /\ drop_plan_items[n].planned_date = day
               /\ work_items[drop_plan_items[n].work_item_id].estimation_hours # NONE
            THEN work_items[drop_plan_items[n].work_item_id].estimation_hours
            ELSE 0)

\* C18: get_user_drop_plan returns one load entry for each working day of the
\* sprint, in their order, with the user's capacity_per_day, the sum of the
\* estimations of the user's plan items of the sprint planned on that day, and
\* is_overcommitted exactly when planned is greater than the capacity.
C18_LoadByDay ==
    resp.op = "get_user_drop_plan" /\ resp.status = 200 =>
        LET it == resp.iteration_id
            u == resp.user_id
            days == iterations[it].working_days
        IN  /\ Len(resp.load_by_day) = Len(days)
            /\ \A n \in 1..Len(days) :
                  LET e == resp.load_by_day[n]
                  IN  /\ e.date = days[n].iso
                      /\ e.capacity = users[u].capacity_per_day
                      /\ e.planned = C18_Planned(it, u, e.date, next_id["drop_plan_items"])
                      /\ e.is_overcommitted <=> e.planned > e.capacity

\* C18 witness: a read shows a day planned exactly up to the user's capacity,
\* which is not overcommitted.
C18_Witness ==
    /\ resp.op = "get_user_drop_plan" /\ resp.status = 200
    /\ \E n \in DOMAIN resp.load_by_day :
          /\ resp.load_by_day[n].planned = resp.load_by_day[n].capacity
          /\ ~resp.load_by_day[n].is_overcommitted

\* The planned hours get_user_drop_plan shows for user u in sprint it on the
\* working day: the entries of that day (0 when it is no working day).
C19_Shown(it, u, day) ==
    LET load == UserLoadByDay(it, u)
        at == {n \in DOMAIN load : load[n].date = day}
    IN  IF at = {} THEN 0 ELSE load[CHOOSE n \in at : TRUE].planned

\* C19: a create_drop_plan_item that succeeds for a user on a working day
\* raises the planned hours get_user_drop_plan shows for that user and day by
\* the work item's estimation hours, once; a delete_drop_plan_item of an item
\* lowers them by the same amount, so that deleting the added item restores
\* the value before the add.
C19_AddThenRemove ==
    [][/\ resp'.op = "create_drop_plan_item" /\ resp'.status = 201 =>
            \A it \in {1, 2}, data \in PlanBodies :
               /\ \E n \in DOMAIN iterations[it].working_days :
                     iterations[it].working_days[n].iso = data.planned_date
               /\ CreateDropPlanItem(it, data)
               => C19_Shown(it, data.assigned_user_id, data.planned_date)' =
                     C19_Shown(it, data.assigned_user_id, data.planned_date)
                     + (IF work_items[data.work_item_id].estimation_hours = NONE
                        THEN 0 ELSE work_items[data.work_item_id].estimation_hours)
       /\ resp'.op = "delete_drop_plan_item" /\ resp'.status = 204 =>
            \A id \in DOMAIN drop_plan_items, it \in DOMAIN iterations,
               u \in DOMAIN users, day \in Dates :
               /\ drop_plan_items[id].iteration_id = it
               /\ drop_plan_items[id].assigned_user_id = u
               /\ drop_plan_items[id].planned_date = day
               /\ \E n \in DOMAIN iterations[it].working_days :
                     iterations[it].working_days[n].iso = day
               /\ DeleteDropPlanItem(id)
               => C19_Shown(it, u, day)' =
                     C19_Shown(it, u, day)
                     - (IF work_items[drop_plan_items[id].work_item_id].estimation_hours
                              = NONE
                        THEN 0
                        ELSE work_items[drop_plan_items[id].work_item_id].estimation_hours)]_vars

\* C19 witness: after the delete of a plan item the user's working day shows
\* the hours of the one item that is left.
C19_Witness ==
    /\ resp = Response("delete_drop_plan_item", 204)
    /\ next_id["drop_plan_items"] = 3
    /\ \E d \in DOMAIN drop_plan_items :
          /\ DOMAIN drop_plan_items = {d}
          /\ drop_plan_items[d].iteration_id = 1
          /\ C19_Shown(1, drop_plan_items[d].assigned_user_id,
                       drop_plan_items[d].planned_date) = 100

\* C20: in every state reachable by create_work_item and update_work_item no
\* Epic has a parent.
C20_EpicHasNoParent ==
    \A w \in DOMAIN work_items :
        work_items[w].type = EPIC => work_items[w].parent_id = NONE

\* ---------------------------------------------------------------------------
\* C21  Every DropPlanItem's planned_date lies within the date range of its
\*      sprint, start_date <= planned_date <= end_date, after every
\*      create_drop_plan_item and update_drop_plan_item.
C21_PlannedDateInSprint ==
    \A i \in DOMAIN drop_plan_items :
        LET row == drop_plan_items[i]
        IN  row.iteration_id \in DOMAIN iterations =>
                /\ iterations[row.iteration_id].start_date <= row.planned_date
                /\ row.planned_date <= iterations[row.iteration_id].end_date

\* ---------------------------------------------------------------------------
\* The five handlers of C22 over the seeded project, with bodies that are
\* refused before the rows are touched (404, 400, 409, 422) and bodies that
\* fail after it (the flush of a null or of a missing reference, the Removed
\* cascade over a parent cycle).
RollbackIterationPatches ==
    [start_date : {UNSET, 2}, end_date : {UNSET, 3},
     working_days : {UnsetList, NoneList}]

RollbackItemPatches ==
    [type : {UnsetStr, NoneStr}, state : {UnsetStr, REMOVED},
     parent_id : {UNSET, 4},
     assigned_to : {UNSET}, iteration_id : {UNSET}, estimation_hours : {UNSET},
     start_date : {UNSET}, end_date : {UNSET}]

RollbackSessionPatches ==
    [started_at : {UNSET, 1}, ended_at : {UNSET, NONE, 1}]

RollbackDropPlanBodies ==
    [work_item_id : {4, 6}, assigned_user_id : {1, 3}, planned_date : {1}]

RollbackNext ==
    \/ \E id \in 1..(MaxIterations + 1), patch \in RollbackIterationPatches :
          UpdateIteration(1, id, patch)
    \/ \E id \in 3..4, patch \in RollbackItemPatches : UpdateWorkItem(1, id, patch)
    \/ \E sid \in 1..(MaxSessions + 1), patch \in RollbackSessionPatches :
          UpdateWorkSession(4, sid, patch)
    \/ \E wi \in 3..4, s \in {0, 1}, e \in {1, NONE} : CreateWorkSession(1, wi, s, e)
    \/ \E it \in 1..(MaxIterations + 1), data \in RollbackDropPlanBodies :
          CreateDropPlanItem(it, data)

RollbackSpec == DropPlanInit /\ [][RollbackNext]_vars

C22_Handlers ==
    {"update_iteration", "update_work_item", "update_work_session",
     "create_work_session", "create_drop_plan_item"}

\* C22  All-or-nothing on rejection: when update_iteration, update_work_item,
\*      update_work_session, create_work_session or create_drop_plan_item ends
\*      with an error, every table holds after the request what it held before.
C22_RejectionChangesNothing ==
    [][resp'.op \in C22_Handlers /\ resp'.status >= 400 =>
          UNCHANGED <<projects, users, members, iterations, work_items,
                      sessions, drop_plan_items>>]_vars

\* An update_work_item that failed after its setattr loop (500), over tables
\* that hold sessions and plan items.
C22_Witness ==
    /\ resp.op = "update_work_item" /\ resp.status = 500
    /\ sessions # NoRows /\ drop_plan_items # NoRows

\* ---------------------------------------------------------------------------
\* C23  A session's total_hours is null exactly when its ended_at is null; for
\*      a closed session total_hours is (ended_at - started_at) in hours
\*      rounded to two decimals: it differs from the exact quotient by at most
\*      half a hundredth (instants count 0.005 h, total_hours counts 0.01 h).
\*      create_work_session, update_work_session and delete_work_session keep it.
C23_TotalHoursOfClosedSession ==
    \A s \in DOMAIN sessions :
        LET row == sessions[s]
            k == row.ended_at - row.started_at
        IN  IF row.ended_at = NONE
            THEN row.total_hours = NONE
            ELSE /\ row.total_hours # NONE
                 /\ 2 * row.total_hours - k \in {-1, 0, 1}

\* A session that update_work_session closed over an odd number of instants:
\* its total_hours is the decimal rounding of the new span.
C23_Witness ==
    /\ resp.op = "update_work_session" /\ resp.status = 200
    /\ \E s \in DOMAIN sessions :
          /\ sessions[s].ended_at # NONE
          /\ sessions[s].ended_at - sessions[s].started_at = 1
          /\ sessions[s].total_hours = HoursDecimal(1)
          /\ HoursDecimal(1) # HoursFloat(1)

\* ---------------------------------------------------------------------------
\* ---- create_work_session as concurrent transactions (READ COMMITTED): every
\* ---- select sees the sessions committed so far; the inserted row is private
\* ---- until get_db commits.  The handler takes no lock and catches no
\* ---- IntegrityError, and the statements it issues name no constraint.

\* The request r arrives and opens its transaction.
WsBegin(r, wi, started, ended) ==
    /\ r \notin DOMAIN txn
    /\ ended # NONE => started < ended
    /\ txn' = Put(txn, r, [pc |-> "select_item", work_item_id |-> wi,
                           started_at |-> started, ended_at |-> ended,
                           id |-> NONE, status |-> 0])
    /\ UNCHANGED <<projects, users, members, iterations, work_items, sessions,
                   drop_plan_items, next_id, resp>>

\* The request r ends with status st: its transaction is over.
WsEnd(r, st) ==
    /\ txn' = [txn EXCEPT ![r].pc = "done", ![r].status = st]
    /\ resp' = Response("create_work_session", st)

\* select(WorkItem) of project 1, then the type check.
WsSelectItem(r) ==
    /\ r \in DOMAIN txn /\ txn[r].pc = "select_item"
    /\ IF ~ItemInProject(txn[r].work_item_id, 1) THEN WsEnd(r, 404)
       ELSE IF work_items[txn[r].work_item_id].type # TASK THEN WsEnd(r, 400)
       ELSE txn' = [txn EXCEPT ![r].pc = "select_open"] /\ UNCHANGED resp
    /\ UNCHANGED <<projects, users, members, iterations, work_items, sessions,
                   drop_plan_items, next_id>>

\* The select of the task's open session, over the committed rows.
WsSelectOpen(r) ==
    /\ r \in DOMAIN txn /\ txn[r].pc = "select_open"
    /\ IF Cardinality(OpenSessions(txn[r].work_item_id)) > 1 THEN WsEnd(r, 500)
       ELSE IF OpenSessions(txn[r].work_item_id) # {} THEN WsEnd(r, 409)
       ELSE txn' = [txn EXCEPT ![r].pc = "flush"] /\ UNCHANGED resp
    /\ UNCHANGED <<projects, users, members, iterations, work_items, sessions,
                   drop_plan_items, next_id>>

\* db.add(session) and db.flush(): the INSERT, which nothing refuses.
WsFlush(r) ==
    /\ r \in DOMAIN txn /\ txn[r].pc = "flush"
    /\ next_id["sessions"] <= MaxSessions
    /\ txn' = [txn EXCEPT ![r].pc = "commit", ![r].id = next_id["sessions"]]
    /\ next_id' = [next_id EXCEPT !["sessions"] = @ + 1]
    /\ UNCHANGED <<projects, users, members, iterations, work_items, sessions,
                   drop_plan_items, resp>>

\* The handler returns and get_db commits: the row becomes visible.
WsCommit(r) ==
    /\ r \in DOMAIN txn /\ txn[r].pc = "commit"
    /\ sessions' = Put(sessions, txn[r].id,
           [work_item_id |-> txn[r].work_item_id,
            started_at |-> txn[r].started_at, ended_at |-> txn[r].ended_at,
            total_hours |-> IF txn[r].ended_at # NONE
                            THEN HoursFloat(txn[r].ended_at - txn[r].started_at)
                            ELSE NONE])
    /\ WsEnd(r, 201)
    /\ UNCHANGED <<projects, users, members, iterations, work_items,
                   drop_plan_items, next_id>>

\* Concurrent create_work_session requests on the seeded project, each its own
\* transaction.
SessionRaceNext ==
    \/ \E r \in Requests, wi \in 3..6, s \in Instants, e \in Instants \cup {NONE} :
          WsBegin(r, wi, s, e)
    \/ \E r \in Requests : WsSelectItem(r)
    \/ \E r \in Requests : WsSelectOpen(r)
    \/ \E r \in Requests : WsFlush(r)
    \/ \E r \in Requests : WsCommit(r)

SessionRaceSpec == SessionInit /\ [][SessionRaceNext]_vars

\* C24 (as claimed): two concurrent create_work_session requests for one task
\*      that both create an open session, both having started with no open
\*      session of the task, never both commit.
C24_OneOpenSessionCommits ==
    \A a, b \in DOMAIN txn :
        /\ a # b
        /\ txn[a].work_item_id = txn[b].work_item_id
        /\ txn[a].ended_at = NONE /\ txn[b].ended_at = NONE
        => ~(txn[a].status = 201 /\ txn[b].status = 201)

\* ---------------------------------------------------------------------------
\* Tasks with dates next to the sprints of project 1: sprint 1 is seeded,
\* create_iteration can add a second one.
DatedPatches ==
    [type : {UnsetStr}, state : {UnsetStr}, parent_id : {UNSET},
     assigned_to : {UNSET}, iteration_id : {UNSET, NONE, 1, 2},
     estimation_hours : {UNSET},
     start_date : {UNSET, NONE} \cup Dates, end_date : {UNSET, NONE} \cup Dates]

DatedInit ==
    /\ projects = {1}
    /\ users = SeedUsers
    /\ members = {<<1, 1>>}
    /\ iterations = 1 :> [project_id |-> 1, start_date |-> 1, end_date |-> 2,
                          working_days |-> IsoList(<<1>>)]
    /\ work_items = SeedItems
    /\ sessions = NoRows
    /\ drop_plan_items = NoRows
    /\ next_id = [t \in Tables |->
                    CASE t = "projects" -> 2 [] t = "users" -> 3
                      [] t = "iterations" -> 2 [] t = "work_items" -> 6
                      [] OTHER -> 1]
    /\ txn = NoRows
    /\ resp = Response("startup", 200)

DatedNext ==
    \/ \E patch \in DatedPatches : UpdateWorkItem(1, 4, patch)
    \/ \E data \in RangeBodies : CreateIteration(1, data)
    \/ \E id \in 1..(MaxIterations + 1), patch \in RangePatches :
          UpdateIteration(1, id, patch)

DatedSpec == DatedInit /\ [][DatedNext]_vars

\* C25 (as claimed): every Task that is assigned to a sprint and has start_date
\*      and end_date set has both dates within the sprint's
\*      [start_date, end_date] and end_date >= start_date, after every update
\*      of a work item and every create or update of a sprint.
C25_TaskDatesInSprint ==
    \A w \in DOMAIN work_items :
        LET row == work_items[w]
        IN  /\ row.type = TASK
            /\ row.iteration_id \in DOMAIN iterations
            /\ row.start_date # NONE /\ row.end_date # NONE
            => /\ iterations[row.iteration_id].start_date <= row.start_date
               /\ row.start_date <= row.end_date
               /\ row.end_date <= iterations[row.iteration_id].end_date

\* ---------------------------------------------------------------------------
\* Work sessions next to updates of the type of the seeded tasks.
TypePatches ==
    [type : {UnsetStr} \cup WorkItemType, state : {UnsetStr}, parent_id : {UNSET},
     assigned_to : {UNSET}, iteration_id : {UNSET}, estimation_hours : {UNSET},
     start_date : {UNSET}, end_date : {UNSET}]

TypeNext ==
    \/ \E wi \in 3..5, s \in Instants, e \in Instants \cup {NONE} :
          CreateWorkSession(1, wi, s, e)
    \/ \E id \in 4..5, patch \in TypePatches : UpdateWorkItem(1, id, patch)
    \/ \E wi \in 4..5, sid \in 1..(MaxSessions + 1) : DeleteWorkSession(wi, sid)

TypeSpec == SessionInit /\ [][TypeNext]_vars

\* C26 (as claimed): every work session belongs to a work item whose type is
\*      Task, after every create of a session and every update of a work item,
\*      updates of the type included.
C26_SessionsBelongToTasks ==
    \A s \in DOMAIN sessions :
        /\ sessions[s].work_item_id \in DOMAIN work_items
        /\ work_items[sessions[s].work_item_id].type = TASK

\* ---------------------------------------------------------------------------
\* C27 (as claimed): membership is many-to-many: add_project_member succeeds
\*      for every existing user who is not yet a member of the existing
\*      project, also when the project already has another member, and adds
\*      the pair.
C27_AddsEveryNewMember ==
    [][resp'.op = "add_project_member" =>
          \A p \in projects, u \in DOMAIN users :
             /\ <<p, u>> \notin members
             /\ AddProjectMember(p, u)
             => /\ resp'.status = 201
                /\ members' = members \cup {<<p, u>>}]_vars

\* ---------------------------------------------------------------------------
\* C28 (as claimed): the total_planned of a get_iteration_capacity response
\*      equals the sum of total_planned over its capacity_by_day entries.
C28_ByDaySumsToTotal ==
    resp.op = "get_iteration_capacity" /\ resp.status = 200 =>
        resp.total_planned =
            SumOver([i \in DOMAIN resp.capacity_by_day |->
                        resp.capacity_by_day[i].total_planned],
                    DOMAIN resp.capacity_by_day)

\* C29 (as claimed): the total_planned of a get_iteration_capacity response
\*      equals the sum of total_planned over its capacity_by_user entries, also
\*      after a user with planned items was deactivated or removed.
C29_ByUserSumsToTotal ==
    resp.op = "get_iteration_capacity" /\ resp.status = 200 =>
        resp.total_planned =
            SumOver([u \in DOMAIN resp.capacity_by_user |->
                        resp.capacity_by_user[u].total_planned],
                    DOMAIN resp.capacity_by_user)

\* The estimation hours of the plan items of sprint it whose assigned user has
\* no entry in capacity_by_user: no member of project p, or not active.
RECURSIVE C29_Unlisted(_, _, _)
C29_Unlisted(p, it, n) ==
    IF n = 0 THEN 0
    ELSE C29_Unlisted(p, it, n - 1) +
         (IF /\ n \in DOMAIN drop_plan_items
             /\ drop_plan_items[n].iteration_id = it
             /\ ~(/\ <<p, drop_plan_items[n].assigned_user_id>> \in members
                  /\ users[drop_plan_items[n].assigned_user_id].is_active)
             /\ work_items[drop_plan_items[n].work_item_id].estimation_hours # NONE
          THEN work_items[drop_plan_items[n].work_item_id].estimation_hours
          ELSE 0)

\* C29 (amended): total_planned equals the sum of total_planned over the
\*      capacity_by_user entries plus the estimation hours of the sprint's plan
\*      items whose assigned user is no active member of the project of the
\*      request; the two are equal when every plan item of the sprint is
\*      assigned to an active member.
C29_ByUserPlusUnlisted ==
    resp.op = "get_iteration_capacity" /\ resp.status = 200 =>
        resp.total_planned =
            SumOver([u \in DOMAIN resp.capacity_by_user |->
                        resp.capacity_by_user[u].total_planned],
                    DOMAIN resp.capacity_by_user)
            + C29_Unlisted(resp.project_id, resp.iteration_id,
                           next_id["drop_plan_items"])

\* A response for a sprint that holds an estimated plan item of a member next
\* to one of a user who was deactivated or is no member.
C29_Witness ==
    /\ resp.op = "get_iteration_capacity" /\ resp.status = 200
    /\ \E u \in DOMAIN resp.capacity_by_user :
          resp.capacity_by_user[u].total_planned > 0
    /\ C29_Unlisted(resp.project_id, resp.iteration_id,
                    next_id["drop_plan_items"]) > 0

\* ---------------------------------------------------------------------------
\* C30 (as claimed): after every create_work_item and update_work_item the
\*      parent relation is acyclic, no work item is its own ancestor, so that
\*      the Removed cascade of every work item terminates.
C30_ParentAcyclic ==
    \A w \in DOMAIN work_items :
        /\ ~IsDescendant(work_items, w, w)
        /\ ~CascadeDiverges(work_items, w)

====
